---------------------------- MODULE Spec2Model ----------------------------
(***************************************************************************)
(* Model of the balance endpoint of ETHBalance_Checker: the POST handler,  *)
(* the address validator isValidEthAddress and the unit converter          *)
(* weiToEtherFixed5.                                                       *)
(*                                                                         *)
(* JavaScript strings that the code inspects character by character (the   *)
(* address, the wei amount) are sequences of one-character strings.        *)
(* BigInt values are sequences of decimal digits, most significant first,  *)
(* without leading zeros (zero is <<0>>); the BigInt operators below are   *)
(* exact integer arithmetic on that representation, because a wei amount   *)
(* does not fit a machine integer.                                         *)
(***************************************************************************)
EXTENDS Integers, Sequences, FiniteSets, Bags, TLC

-----------------------------------------------------------------------------
(* Characters and strings *)

DigitChars == <<"0", "1", "2", "3", "4", "5", "6", "7", "8", "9">>

\* The class \d of a JavaScript regular expression without the u flag.
IsDigitChar(c) == \E i \in 1..10 : DigitChars[i] = c

DigitVal(c) == (CHOOSE i \in 1..10 : DigitChars[i] = c) - 1

\* The class [a-fA-F0-9], restricted to the characters the model uses.
IsHexChar(c) == IsDigitChar(c) \/ c \in {"a", "b", "c", "d", "e", "f", "A", "B", "C", "D", "E", "F"}

\* WhiteSpace and LineTerminator code points removed by String.prototype.trim.
IsTrimChar(c) == c \in {" ", "\t", "\n", "\r"}

\* n copies of the character c.
Repeat(c, n) == <<>> \o [i \in 1..n |-> c]

-----------------------------------------------------------------------------
(* BigInt arithmetic on digit sequences.  The operators are written with   *)
(* as little recursion as exact arithmetic allows, and an intermediate     *)
(* result that is used more than once is bound as the element of a         *)
(* singleton set, which is evaluated once.                                 *)

\* The only element of a singleton set.
The(S) == CHOOSE r \in S : TRUE

\* The place of the first digit that is kept when leading zeros go.
FirstKept(d) ==
    CHOOSE j \in 1..Len(d) : (j = Len(d) \/ d[j] # 0) /\ \A i \in 1..(j - 1) : d[i] = 0

\* x without its leading zeros (zero keeps one digit).
Strip(x) == The({SubSeq(d, FirstKept(d), Len(d)) : d \in {x}})

\* BigInt(weiStr) for a string of decimal digits: leading zeros carry no value.
BigIntOf(str) == Strip(<<>> \o [i \in 1..Len(str) |-> DigitVal(str[i])])

PadLeft(d, n) == IF Len(d) >= n THEN d ELSE Repeat(0, n - Len(d)) \o d

\* -1, 0 or 1 as x < y, x = y, x > y: the first digit that differs decides.
BigCmp(x, y) ==
    The({ IF Len(a) < Len(b) THEN -1
          ELSE IF Len(a) > Len(b) THEN 1
          ELSE IF a = b THEN 0
          ELSE IF \E i \in 1..Len(a) : a[i] < b[i] /\ \A j \in 1..(i - 1) : a[j] = b[j] THEN -1
          ELSE 1 : a \in {x}, b \in {y} })

\* The carry into digit i of a + b: some digit after i overflows and every
\* digit between passes the carry on.
CarryInto(a, b, i) ==
    \E j \in (i + 1)..Len(a) : a[j] + b[j] >= 10 /\ \A k \in (i + 1)..(j - 1) : a[k] + b[k] = 9

\* x + y.
BigAdd(x, y) ==
    The({ Strip((IF CarryInto(a, b, 0) THEN <<1>> ELSE <<0>>) \o
                [i \in 1..Len(a) |->
                    (a[i] + b[i] + (IF CarryInto(a, b, i) THEN 1 ELSE 0)) % 10]) :
            a \in {PadLeft(x, Len(y))}, b \in {PadLeft(y, Len(x))} })

\* The borrow from digit i of a - b.
BorrowFrom(a, b, i) ==
    \E j \in (i + 1)..Len(a) : a[j] < b[j] /\ \A k \in (i + 1)..(j - 1) : a[k] = b[k]

\* x - y for x >= y.
BigSub(x, y) ==
    The({ Strip(<<0>> \o
                [i \in 1..Len(a) |->
                    (a[i] - b[i] - (IF BorrowFrom(a, b, i) THEN 1 ELSE 0) + 10) % 10]) :
            a \in {x}, b \in {PadLeft(y, Len(x))} })

\* The digit of a that weighs 10^p (0 beyond its length).
DigitAt(a, p) == IF p >= 0 /\ p < Len(a) THEN a[Len(a) - p] ELSE 0

\* The sum of the digit products of a * b that weigh 10^p.
Column(a, b, p) ==
    BagCardinality([i \in {j \in 0..p : DigitAt(a, j) * DigitAt(b, p - j) > 0} |->
                       DigitAt(a, i) * DigitAt(b, p - i)])

\* The number whose digit at 10^(p + e) is the 10^e digit of cols[p].
ColumnDigits(cols, e) ==
    Strip(<<0>> \o [t \in 1..Len(cols) |-> (cols[t] \div (10 ^ e)) % 10] \o Repeat(0, e))

\* x * y: the column sums (each below 10^4), added up digit by digit.
BigMul(x, y) ==
    The({ BigAdd(BigAdd(ColumnDigits(cols, 0), ColumnDigits(cols, 1)),
                 BigAdd(ColumnDigits(cols, 2), ColumnDigits(cols, 3))) :
            cols \in { <<>> \o [t \in 1..(Len(a) + Len(b) - 1) |->
                                  Column(a, b, Len(a) + Len(b) - 1 - t)] :
                         a \in {x}, b \in {y} } })

RECURSIVE BigPow(_, _)
\* x ** e for a machine-sized exponent e >= 0, by squaring.
BigPow(x, e) ==
    IF e = 0 THEN <<1>>
    ELSE The({ IF e % 2 = 0 THEN BigMul(h, h) ELSE BigMul(BigMul(h, h), x) :
                 h \in {BigPow(x, e \div 2)} })

\* How often b goes into cur, for cur < 10 * b.
QuotDigit(cur, b) ==
    CHOOSE m \in 0..9 :
        /\ BigCmp(BigMul(b, <<m>>), cur) <= 0
        /\ (m = 9 \/ BigCmp(BigMul(b, <<m + 1>>), cur) > 0)

\* One step of long division: b goes k times into cur, the remainder so far
\* followed by the next digit of the dividend.
DivStep(b, q, cur) ==
    The({ [quot |-> Strip(q \o <<k>>), rem |-> BigSub(cur, BigMul(b, <<k>>))] :
            k \in {QuotDigit(cur, b)} })

RECURSIVE DivRec(_, _, _)
\* Long division of the first i digits of a by b; no digit of the quotient
\* comes before the dividend is as long as the divisor.
DivRec(a, b, i) ==
    IF i < Len(b) THEN [quot |-> <<0>>, rem |-> Strip(<<0>> \o SubSeq(a, 1, i))]
    ELSE The({ The({ DivStep(b, prev.quot, cur) :
                       cur \in {Strip(prev.rem \o <<a[i]>>)} }) :
                 prev \in {DivRec(a, b, i - 1)} })

\* x / y of BigInt: the quotient truncated toward zero (x >= 0, y > 0).
BigDiv(x, y) == The({DivRec(a, b, Len(a)).quot : a \in {x}, b \in {y}})

\* x % y of BigInt (x >= 0, y > 0).
BigMod(x, y) == The({DivRec(a, b, Len(a)).rem : a \in {x}, b \in {y}})

\* BigInt.prototype.toString(): decimal, no leading zeros.
BigToString(x) == The({<<>> \o [i \in 1..Len(a) |-> DigitChars[a[i] + 1]] : a \in {x}})

\* The BigInt literals of the code (10n, 18n, 5n are below 100).
BigOfNat(n) == IF n < 10 THEN <<n>> ELSE <<n \div 10, n % 10>>

-----------------------------------------------------------------------------
(* weiToEtherFixed5 *)

EtherDecimals == 18

FractionDigits == 5

\* /^\d+$/.test(weiStr): without the m flag $ matches at the end of input only.
IsDigitString(str) == Len(str) > 0 /\ \A i \in 1..Len(str) : IsDigitChar(str[i])

\* A padStart that pads nothing.
PadStartNone(str, n, c) == str

\* String.prototype.padStart(n, c) with a one-character filler.
PadStart(str, n, c) == IF Len(str) >= n THEN str ELSE Repeat(c, n - Len(str)) \o str

ZeroFixed5 == <<"0", ".", "0", "0", "0", "0", "0">>

weiToEtherFixed5(weiStr) ==
    IF ~IsDigitString(weiStr) THEN ZeroFixed5
    ELSE The({ The({ The({ BigToString(whole) \o <<".">> \o decimals :
                             decimals \in {PadStart(BigToString(scaled), 5, "0")} }) :
                      whole  \in {BigDiv(wei, base)},
                      scaled \in { BigDiv(BigMul(remainder, BigPow(BigOfNat(10), FractionDigits)), base) :
                                     remainder \in {BigMod(wei, base)} } }) :
               wei  \in {BigIntOf(weiStr)},
               base \in {BigPow(BigOfNat(10), EtherDecimals)} })

-----------------------------------------------------------------------------
(* isValidEthAddress *)

AddrHexLen == 40

RECURSIVE TrimStart(_)
TrimStart(str) == IF Len(str) > 0 /\ IsTrimChar(str[1]) THEN TrimStart(Tail(str)) ELSE str

RECURSIVE TrimEnd(_)
TrimEnd(str) ==
    IF Len(str) > 0 /\ IsTrimChar(str[Len(str)]) THEN TrimEnd(SubSeq(str, 1, Len(str) - 1)) ELSE str

\* String.prototype.trim().
Trim(str) == TrimEnd(TrimStart(str))

\* /^0x[a-fA-F0-9]{40}$/.test(str)
MatchesAddressPattern(str) ==
    /\ Len(str) = 2 + AddrHexLen
    /\ str[1] = "0"
    /\ str[2] = "x"
    /\ \A i \in 3..Len(str) : IsHexChar(str[i])

\* The validator without the trim.
isValidEthAddressNoTrim(addr) == MatchesAddressPattern(addr)

isValidEthAddress(addr) == MatchesAddressPattern(Trim(addr))

-----------------------------------------------------------------------------
(* JavaScript values.  A string whose characters the code inspects (the    *)
(* address, the wei amount) is Str of a character sequence; a string the   *)
(* code only compares or passes on (a message, the status indicator, the   *)
(* credential) is Text of a TLA+ string.                                   *)

Undefined == [t |-> "undefined"]

Null == [t |-> "null"]

Num(n) == [t |-> "number", n |-> n]

Str(chars) == [t |-> "string", s |-> chars]

Text(text) == [t |-> "text", text |-> text]

\* typeof v === "string"
IsString(v) == v.t \in {"string", "text"}

\* ToBoolean(v): undefined, null, 0 and the empty string are falsy.
Truthy(v) ==
    CASE v.t = "undefined" -> FALSE
      [] v.t = "null"      -> FALSE
      [] v.t = "number"    -> v.n # 0
      [] v.t = "string"    -> v.s # <<>>
      [] v.t = "text"      -> v.text # ""

-----------------------------------------------------------------------------
(* The inputs the model draws from *)

\* All sequences over S of length at most n.
SeqsUpTo(S, n) == UNION {[1..k -> S] : k \in 0..n}

\* The longest run of whitespace put before and after an address.
MaxPad == 1

Pads == SeqsUpTo({" ", "\n"}, MaxPad)

AddrLower == <<"0", "x">> \o Repeat("a", 40)

AddrMixed == <<"0", "x", "A", "f", "9", "0", "D", "e">> \o Repeat("1", 34)

AddressCores ==
    { AddrLower, AddrMixed,
      <<>>,
      <<"0", "X">> \o Repeat("a", 40),
      <<"0", "x">> \o Repeat("a", 39),
      <<"0", "x">> \o Repeat("a", 41),
      <<"0", "x">> \o Repeat("a", 39) \o <<"g">>,
      <<"0", "x">> \o Repeat("a", 20) \o <<" ">> \o Repeat("a", 19),
      Repeat("a", 42),
      <<"n", "o", "t", "-", "a", "n", "-", "a", "d", "d", "r", "e", "s", "s">> }

AddressStrings == {l \o c \o r : l \in Pads, c \in AddressCores, r \in Pads}

\* What req.json() can come to: no JSON at all, null, or an object whose
\* address field is missing, not a string, or a string.
Bodies ==
    {[json |-> "invalid"], [json |-> "null"]} \cup
    { [json |-> "object", address |-> v] :
        v \in {Undefined, Null, Num(0), Num(5)} \cup {Str(s) : s \in AddressStrings} }

ApiKeys == {Undefined, Text(""), Text("KEY")}

UpstreamStatuses == {200, 204, 404, 500}

OneEther == <<"1">> \o Repeat("0", 18)

ResultStrings == {<<"0">>, <<"1">>, OneEther, Repeat("9", 18), <<"0", "x", "1", "f">>}

\* What res.json() can come to.
UpstreamBodies ==
    {[json |-> "invalid"], [json |-> "null"]} \cup
    { [json |-> "object", status |-> s, message |-> m, result |-> r] :
        s \in {Undefined, Text("0"), Text("1"), Num(1)},
        m \in {Undefined, Text(""), Text("NOTOK")},
        r \in {Undefined, Str(<<>>)} \cup {Str(x) : x \in ResultStrings} }

-----------------------------------------------------------------------------
(* The POST handler *)

VARIABLES
    apiKey,     \* process.env.ETHERSCAN_API_KEY
    pc,         \* where the handler is
    reqBody,    \* what req.json() comes to for the request in hand
    address,    \* const { address }
    outbound,   \* the query parameters of each fetch issued for the request
    res,        \* the upstream response
    data,       \* the parsed envelope
    responses,  \* the responses returned for the request
    steps,      \* the steps run for the request, in order
    thrown,     \* the text of the exception caught, if any
    weiStr,     \* the converter's input when it is applied on its own
    etherStr    \* and its output

vars == <<apiKey, pc, reqBody, address, outbound, res, data, responses, steps, thrown,
          weiStr, etherStr>>

NoRes == [status |-> 0, ok |-> FALSE]

NotConverted == <<"?">>

MsgMissing == "Missing 'address' in request body."

MsgInvalid == "Invalid Ethereum address format."

MsgNoKey == "Server misconfiguration: ETHERSCAN_API_KEY is not set."

MsgGeneric == "Failed to retrieve balance from Etherscan."

MsgUnexpected == "Unexpected server error."

\* !address || typeof address !== "string"
MissingAddress(a) == ~Truthy(a) \/ ~IsString(a)

\* !apiKey, read as apiKey === undefined.
CredentialMissingUndefinedOnly(k) == k = Undefined

\* !apiKey
CredentialMissing(k) == ~Truthy(k)

\* The value sent as the address query parameter.
AddressParam(a) == a.s

\* res.ok
StatusOk(status) == status \in 200..299

TransportError(status) == "Etherscan request failed with status " \o ToString(status) \o "."

\* data.status !== "1" || !data.result
EnvelopeRejected(d) == d.status # Text("1") \/ ~Truthy(d.result)

\* The rejection that reports the generic message whatever the envelope says.
RejectedErrorGeneric(d) == MsgGeneric

\* data.message || "Failed to retrieve balance from Etherscan."
RejectedError(d) == IF Truthy(d.message) THEN d.message.text ELSE MsgGeneric

\* A success body that passes the raw balance on.
SuccessBodyRaw(d) == [balanceEther |-> d.result.s]

SuccessBody(d) == [balanceEther |-> weiToEtherFixed5(d.result.s)]

\* A catch that reports the exception's text.
CatchBodyLeak(e) == [error |-> e]

\* catch { return Response.json({ error: "Unexpected server error." }, ...) }
CatchBody(e) == [error |-> MsgUnexpected]

\* return Response.json(body, { status })
Respond(status, body) ==
    /\ responses' = Append(responses, [status |-> status, body |-> body])
    /\ pc' = "done"

\* An exception e thrown inside the try block.
Catch(e) ==
    /\ thrown' = e
    /\ Respond(500, CatchBody(e))

Init ==
    /\ apiKey \in ApiKeys
    /\ pc = "idle"
    /\ reqBody = [json |-> "invalid"]
    /\ address = Undefined
    /\ outbound = <<>>
    /\ res = NoRes
    /\ data = Undefined
    /\ responses = <<>>
    /\ steps = <<>>
    /\ thrown = ""
    /\ weiStr = <<>>
    /\ etherStr = NotConverted

\* A request arrives and POST is invoked on it.
Receive ==
    /\ pc = "idle"
    /\ \E b \in Bodies : reqBody' = b
    /\ pc' = "parseBody"
    /\ UNCHANGED <<apiKey, address, outbound, res, data, responses, steps, thrown,
                   weiStr, etherStr>>

\* const { address } = await req.json()
ParseBody ==
    /\ pc = "parseBody"
    /\ steps' = Append(steps, pc)
    /\ CASE reqBody.json = "invalid" ->
              /\ Catch("SyntaxError: Unexpected end of JSON input")
              /\ UNCHANGED address
         [] reqBody.json = "null" ->
              /\ Catch("TypeError: Cannot destructure property 'address' of null")
              /\ UNCHANGED address
         [] reqBody.json = "object" ->
              /\ address' = reqBody.address
              /\ pc' = "checkAddress"
              /\ UNCHANGED <<responses, thrown>>
    /\ UNCHANGED <<apiKey, reqBody, outbound, res, data, weiStr, etherStr>>

\* if (!address || typeof address !== "string") return 400
CheckAddress ==
    /\ pc = "checkAddress"
    /\ steps' = Append(steps, pc)
    /\ IF MissingAddress(address)
       THEN Respond(400, [error |-> MsgMissing])
       ELSE pc' = "validate" /\ UNCHANGED responses
    /\ UNCHANGED <<apiKey, reqBody, address, outbound, res, data, thrown, weiStr, etherStr>>

\* if (!isValidEthAddress(address)) return 400
ValidateAddress ==
    /\ pc = "validate"
    /\ steps' = Append(steps, pc)
    /\ IF ~isValidEthAddress(address.s)
       THEN Respond(400, [error |-> MsgInvalid])
       ELSE pc' = "credential" /\ UNCHANGED responses
    /\ UNCHANGED <<apiKey, reqBody, address, outbound, res, data, thrown, weiStr, etherStr>>

\* const apiKey = process.env.ETHERSCAN_API_KEY; if (!apiKey) return 500
ReadCredential ==
    /\ pc = "credential"
    /\ steps' = Append(steps, pc)
    /\ IF CredentialMissing(apiKey)
       THEN Respond(500, [error |-> MsgNoKey])
       ELSE pc' = "fetch" /\ UNCHANGED responses
    /\ UNCHANGED <<apiKey, reqBody, address, outbound, res, data, thrown, weiStr, etherStr>>

\* const res = await fetch(url.toString(), { method: "GET" }): the call is
\* issued, and either fails or brings a response.
CallUpstream ==
    /\ pc = "fetch"
    /\ steps' = Append(steps, pc)
    /\ outbound' = Append(outbound, [module |-> "account", action |-> "balance",
                                     address |-> AddressParam(address), tag |-> "latest",
                                     apikey |-> apiKey.text])
    /\ \/ /\ Catch("TypeError: fetch failed")
          /\ UNCHANGED res
       \/ /\ \E s \in UpstreamStatuses : res' = [status |-> s, ok |-> StatusOk(s)]
          /\ pc' = "checkOk"
          /\ UNCHANGED <<responses, thrown>>
    /\ UNCHANGED <<apiKey, reqBody, address, data, weiStr, etherStr>>

\* A transport check that issues the call again on a non-success status.
CheckTransportRetry ==
    /\ pc = "checkOk"
    /\ steps' = Append(steps, pc)
    /\ IF ~res.ok
       THEN pc' = "fetch"
       ELSE pc' = "parseEnvelope"
    /\ UNCHANGED <<apiKey, reqBody, address, outbound, res, data, responses, thrown, weiStr, etherStr>>

\* if (!res.ok) return 502
CheckTransport ==
    /\ pc = "checkOk"
    /\ steps' = Append(steps, pc)
    /\ IF ~res.ok
       THEN Respond(502, [error |-> TransportError(res.status)])
       ELSE pc' = "parseEnvelope" /\ UNCHANGED responses
    /\ UNCHANGED <<apiKey, reqBody, address, outbound, res, data, thrown, weiStr, etherStr>>

\* const data = await res.json()
ParseEnvelope ==
    /\ pc = "parseEnvelope"
    /\ steps' = Append(steps, pc)
    /\ \E b \in UpstreamBodies :
         CASE b.json = "invalid" ->
                /\ Catch("SyntaxError: Unexpected token < in JSON at position 0")
                /\ UNCHANGED data
           [] b.json = "null" ->
                /\ data' = Null
                /\ pc' = "checkEnvelope"
                /\ UNCHANGED <<responses, thrown>>
           [] b.json = "object" ->
                /\ data' = [t |-> "object", status |-> b.status, message |-> b.message,
                            result |-> b.result]
                /\ pc' = "checkEnvelope"
                /\ UNCHANGED <<responses, thrown>>
    /\ UNCHANGED <<apiKey, reqBody, address, outbound, res, weiStr, etherStr>>

\* if (data.status !== "1" || !data.result) return 502
CheckEnvelope ==
    /\ pc = "checkEnvelope"
    /\ steps' = Append(steps, pc)
    /\ IF data = Null
       THEN Catch("TypeError: Cannot read properties of null (reading 'status')")
       ELSE /\ IF EnvelopeRejected(data)
               THEN Respond(502, [error |-> RejectedError(data)])
               ELSE pc' = "convert" /\ UNCHANGED responses
            /\ UNCHANGED thrown
    /\ UNCHANGED <<apiKey, reqBody, address, outbound, res, data, weiStr, etherStr>>

\* const balanceEther = weiToEtherFixed5(data.result); return Response.json({ balanceEther })
Convert ==
    /\ pc = "convert"
    /\ steps' = Append(steps, pc)
    /\ Respond(200, SuccessBody(data))
    /\ UNCHANGED <<apiKey, reqBody, address, outbound, res, data, thrown, weiStr, etherStr>>

\* A step of the handler on the request in hand.
HandlerStep ==
    \/ ParseBody
    \/ CheckAddress
    \/ ValidateAddress
    \/ ReadCredential
    \/ CallUpstream
    \/ CheckTransport
    \/ ParseEnvelope
    \/ CheckEnvelope
    \/ Convert

\* The invocation is over: nothing of it is kept for the next request.
Finish ==
    /\ pc = "done"
    /\ pc' = "idle"
    /\ reqBody' = [json |-> "invalid"]
    /\ address' = Undefined
    /\ outbound' = <<>>
    /\ res' = NoRes
    /\ data' = Undefined
    /\ responses' = <<>>
    /\ steps' = <<>>
    /\ thrown' = ""
    /\ UNCHANGED <<apiKey, weiStr, etherStr>>

Next == Receive \/ HandlerStep \/ Finish

Spec == Init /\ [][Next]_vars

-----------------------------------------------------------------------------
(* weiToEtherFixed5 applied on its own *)

\* The longest whole part (the digits above 10^18) of a wei amount.
MaxWholeLen == 2

WholeParts == SeqsUpTo({"0", "1", "9"}, MaxWholeLen)

FractionParts ==
    { Repeat("0", 5), <<"0", "0", "0", "0", "1">>, <<"0", "1", "2", "3", "0">>, Repeat("9", 5) }

LowParts == { Repeat("0", 13), Repeat("0", 12) \o <<"1">>, Repeat("9", 13) }

DigitStrings ==
    {w \o f \o l : w \in WholeParts, f \in FractionParts, l \in LowParts} \cup
    (WholeParts \ {<<>>}) \cup
    { <<"1">> \o Repeat("0", 13), Repeat("9", 13), <<"0", "0", "1">> \o Repeat("0", 18) }

NonDigitStrings ==
    { <<>>, <<"-", "1">>, <<"+", "1">>, <<"1", ".", "5">>, <<"0", "x", "1", "f">>,
      <<"1", "2", "a">>, <<" ", "1", "2">>, <<"1", "2", " ">>, <<"1", "2", "\n">>,
      <<"1", "e", "1", "8">>, <<"1", ",", "0", "0", "0">> }

WeiInputs == DigitStrings \cup NonDigitStrings

ConvInit ==
    /\ apiKey = Undefined
    /\ pc = "idle"
    /\ reqBody = [json |-> "invalid"]
    /\ address = Undefined
    /\ outbound = <<>>
    /\ res = NoRes
    /\ data = Undefined
    /\ responses = <<>>
    /\ steps = <<>>
    /\ thrown = ""
    /\ weiStr \in WeiInputs
    /\ etherStr = NotConverted

ApplyConverter ==
    /\ etherStr = NotConverted
    /\ etherStr' = weiToEtherFixed5(weiStr)
    /\ UNCHANGED <<apiKey, pc, reqBody, address, outbound, res, data, responses, steps,
                   thrown, weiStr>>

ConvNext == ApplyConverter

ConvSpec == ConvInit /\ [][ConvNext]_vars

-----------------------------------------------------------------------------
(* What the claims are stated with *)

DecimalDigits == {"0", "1", "2", "3", "4", "5", "6", "7", "8", "9"}

HexDigits == DecimalDigits \cup {"a", "b", "c", "d", "e", "f", "A", "B", "C", "D", "E", "F"}

WhiteSpace == {" ", "\t", "\n", "\r"}

\* str is a string of decimal digits, at least one.
IsAllDigits(str) == str # <<>> /\ \A i \in DOMAIN str : str[i] \in DecimalDigits

\* The decimal numeral ds without its leading zeros.
Canonical(ds) ==
    SubSeq(ds, CHOOSE j \in 1..Len(ds) :
                  (j = Len(ds) \/ ds[j] # "0") /\ \A i \in 1..(j - 1) : ds[i] = "0",
           Len(ds))

\* floor(V / 10^18) "." floor((V mod 10^18) * 10^5 / 10^18) read off the
\* decimal numeral of V: the whole part is what stands before the last 18
\* digits, the fraction is the first five of the last 18.
ReferenceFixed5(str) ==
    IF ~IsAllDigits(str) THEN <<"0", ".", "0", "0", "0", "0", "0">>
    ELSE Canonical(SubSeq(Repeat("0", 19) \o str, 1, Len(str) + 1)) \o <<".">> \o
         SubSeq(Repeat("0", 19) \o str, Len(str) + 2, Len(str) + 6)

\* out is <whole>.<five digits>.
IsFixed5(out) ==
    /\ Len(out) >= 7
    /\ out[Len(out) - 5] = "."
    /\ \A i \in DOMAIN out : i # Len(out) - 5 => out[i] \in DecimalDigits
    /\ (out[1] = "0" => Len(out) = 7)

\* out * 10^18 as a BigInt, for out = <whole>.<five digits>.
ShownWei(out) ==
    BigAdd(BigMul(BigIntOf(SubSeq(out, 1, Len(out) - 6)), <<1>> \o Repeat(0, 18)),
           BigMul(BigIntOf(SubSeq(out, Len(out) - 4, Len(out))), <<1>> \o Repeat(0, 13)))

\* The value shown is at most V and less than one unit of the fifth decimal below it.
FloorsTo(str, out) ==
    \A shown \in {ShownWei(out)} :
        /\ BigCmp(shown, BigIntOf(str)) <= 0
        /\ BigCmp(BigAdd(shown, <<1>> \o Repeat(0, 13)), BigIntOf(str)) > 0

\* str is 0x and 40 hexadecimal characters, nothing else.
IsCanonicalAddress(str) ==
    /\ Len(str) = 42
    /\ SubSeq(str, 1, 2) = <<"0", "x">>
    /\ \A i \in 3..42 : str[i] \in HexDigits

\* str is a canonical address between two runs of whitespace.
IsCanonicalAfterTrim(str) ==
    \E i \in 1..Len(str) :
        /\ i + 41 <= Len(str)
        /\ IsCanonicalAddress(SubSeq(str, i, i + 41))
        /\ \A k \in 1..(i - 1) : str[k] \in WhiteSpace
        /\ \A k \in (i + 42)..Len(str) : str[k] \in WhiteSpace

Done == pc = "done" /\ Len(responses) = 1

Reply == responses[1]

ErrorReply(status, message) == [status |-> status, body |-> [error |-> message]]

HasStringAddress == reqBody.json = "object" /\ reqBody.address.t = "string"

HasValidAddress == HasStringAddress /\ IsCanonicalAfterTrim(reqBody.address.s)

HasCredential == apiKey.t = "text" /\ apiKey.text # ""

\* The upstream answered with a success status and an envelope.
HasEnvelope == res.ok /\ data.t = "object"

\* The order of the handler's steps: parse body (parseBody, checkAddress),
\* validate address, read credential, call upstream (fetch, checkOk,
\* parseEnvelope, checkEnvelope), convert.
HandlerOrder ==
    << "parseBody", "checkAddress", "validate", "credential", "fetch", "checkOk",
       "parseEnvelope", "checkEnvelope", "convert" >>

IsPrefix(s, u) == Len(s) <= Len(u) /\ SubSeq(u, 1, Len(s)) = s

-----------------------------------------------------------------------------
(* The claims *)

\* C1: for every input string weiToEtherFixed5 returns the reference value:
\* for a string of decimal digits denoting V, floor(V / 10^18) in decimal, a
\* point, and floor((V mod 10^18) * 10^5 / 10^18) padded to exactly 5 digits
\* (V = 0 gives 0.00000, V = 10^18 gives 1.00000, V = 10^18 - 1 gives 0.99999,
\* V = 1 gives 0.00000); for every other string 0.00000.  The fraction has
\* exactly 5 digits and the value shown never exceeds V / 10^18.
C1_ConverterReference ==
    etherStr # NotConverted =>
        /\ etherStr = ReferenceFixed5(weiStr)
        /\ IsFixed5(etherStr)
        /\ IsAllDigits(weiStr) => FloorsTo(weiStr, etherStr)
        /\ ~IsAllDigits(weiStr) => etherStr = <<"0", ".", "0", "0", "0", "0", "0">>
        /\ weiStr = <<"0">> => etherStr = <<"0", ".", "0", "0", "0", "0", "0">>
        /\ weiStr = <<"1">> => etherStr = <<"0", ".", "0", "0", "0", "0", "0">>
        /\ weiStr = <<"1">> \o Repeat("0", 18) => etherStr = <<"1", ".", "0", "0", "0", "0", "0">>
        /\ weiStr = Repeat("9", 18) => etherStr = <<"0", ".", "9", "9", "9", "9", "9">>

\* C1 witness: a 20-digit amount with a leading zero in its fraction has been converted.
C1_Witness ==
    /\ weiStr = <<"1", "9", "0", "1", "2", "3", "0">> \o Repeat("9", 13)
    /\ etherStr = <<"1", "9", ".", "0", "1", "2", "3", "0">>

\* C2 as stated: with a success transport status and an envelope with status
\* "1" and a result payload R, the handler responds 200 with the converter's
\* output for R, and 200 is returned in no other case.
C2_Original ==
    Done =>
        /\ (HasEnvelope /\ data.status = Text("1") /\ data.result.t = "string")
               => /\ Reply.status = 200
                  /\ Reply.body = [balanceEther |-> weiToEtherFixed5(data.result.s)]
        /\ Reply.status = 200
               => HasEnvelope /\ data.status = Text("1") /\ data.result.t = "string"

\* C2 as amended: with a valid address, a credential, a success transport
\* status and an envelope with status "1" and a non-empty result payload R, the
\* handler responds 200 with body {balanceEther: B}, B the converter's output
\* for R (R = 10^18 gives 1.00000, R = 0 gives 0.00000); 200 is returned in no
\* other case.
C2_SuccessReply ==
    Done =>
        /\ (HasEnvelope /\ data.status = Text("1") /\ data.result.t = "string"
              /\ data.result.s # <<>>)
               => /\ Reply.status = 200
                  /\ Reply.body = [balanceEther |-> weiToEtherFixed5(data.result.s)]
                  /\ data.result.s = OneEther
                        => Reply.body.balanceEther = <<"1", ".", "0", "0", "0", "0", "0">>
                  /\ data.result.s = <<"0">>
                        => Reply.body.balanceEther = <<"0", ".", "0", "0", "0", "0", "0">>
        /\ Reply.status = 200
               => /\ HasValidAddress /\ HasCredential /\ HasEnvelope
                  /\ data.status = Text("1")
                  /\ data.result.t = "string" /\ data.result.s # <<>>

\* C2 witness: a balance of 10^18 wei has been answered with 1.00000.
C2_Witness ==
    /\ Done
    /\ data.t = "object" /\ data.result = Str(OneEther)
    /\ Reply = [status |-> 200, body |-> [balanceEther |-> <<"1", ".", "0", "0", "0", "0", "0">>]]

\* C3: whenever the request body is absent, or its address field is missing
\* or not a string, the handler responds 400 with the missing-address message.
C3_MissingAddressIs400 ==
    (Done /\ (\/ reqBody.json \in {"invalid", "null"}
              \/ reqBody.address.t \notin {"string", "text"}))
        => Reply = ErrorReply(400, MsgMissing)

\* C4 as stated: for every request whose body carries a string address, the
\* handler responds 400 with the invalid-format message exactly when the
\* trimmed address is not 0x and 40 hexadecimal characters.
C4_Original ==
    (Done /\ HasStringAddress)
        => (Reply = ErrorReply(400, MsgInvalid) <=> ~IsCanonicalAfterTrim(reqBody.address.s))

\* C4 as amended: for every request whose body carries a non-empty string
\* address, the handler responds 400 with the invalid-format message exactly
\* when the trimmed address is not 0x and 40 hexadecimal characters, whatever
\* the credential (an empty string is answered as a missing address).
C4_InvalidAddressIs400 ==
    (Done /\ HasStringAddress /\ reqBody.address.s # <<>>)
        => (Reply = ErrorReply(400, MsgInvalid) <=> ~IsCanonicalAfterTrim(reqBody.address.s))

\* C4 witness: a padded address one character short, no credential set, answered 400.
C4_Witness ==
    /\ Done
    /\ apiKey = Undefined
    /\ reqBody.json = "object"
    /\ reqBody.address = Str(<<" ", "0", "x">> \o Repeat("a", 39) \o <<"\n">>)
    /\ Reply = ErrorReply(400, MsgInvalid)

\* C5: for every request whose address passes the validator, if the
\* credential is absent or empty the handler responds 500 with the
\* misconfiguration message and no outbound call is made.
C5_NoCredentialIs500 ==
    (HasValidAddress /\ ~HasCredential)
        => /\ outbound = <<>>
           /\ pc \notin {"fetch", "checkOk", "parseEnvelope", "checkEnvelope", "convert"}
           /\ Done => Reply = ErrorReply(500, MsgNoKey)

\* C5 witness: a valid address with an empty credential has been answered 500.
C5_Witness ==
    /\ Done
    /\ HasValidAddress
    /\ apiKey = Text("")
    /\ Reply = ErrorReply(500, MsgNoKey)
    /\ outbound = <<>>

\* C6 as stated: a non-success transport status S yields 502 with "Etherscan
\* request failed with status S."; a success status whose envelope status is
\* not "1" or whose result is missing yields 502 with the envelope's message,
\* or the generic string when the envelope provides no message.
C6_Original ==
    (Done /\ res # NoRes)
        => /\ ~res.ok => Reply = ErrorReply(502, "Etherscan request failed with status "
                                                  \o ToString(res.status) \o ".")
           /\ (HasEnvelope /\ (data.status # Text("1") \/ data.result = Undefined))
                 => Reply = ErrorReply(502, IF data.message = Undefined THEN MsgGeneric
                                            ELSE data.message.text)

\* C6 as amended: a non-success transport status S yields 502 with "Etherscan
\* request failed with status S."; a success status whose envelope status is
\* not "1" or whose result is missing yields 502 with the envelope's message,
\* or the generic string when the envelope provides no message or an empty one
\* (message NOTOK gives {error: NOTOK}).
C6_UpstreamRejection ==
    (Done /\ res # NoRes)
        => /\ ~res.ok => Reply = ErrorReply(502, "Etherscan request failed with status "
                                                  \o ToString(res.status) \o ".")
           /\ (~res.ok /\ res.status = 404)
                 => Reply.body.error = "Etherscan request failed with status 404."
           /\ (HasEnvelope /\ (data.status # Text("1") \/ data.result = Undefined))
                 => Reply = ErrorReply(502, IF data.message \in {Undefined, Text("")}
                                            THEN MsgGeneric ELSE data.message.text)
           /\ (HasEnvelope /\ data.status # Text("1") /\ data.message = Text("NOTOK"))
                 => Reply = ErrorReply(502, "NOTOK")

\* C6 witness: an envelope with status 0 and message NOTOK has been answered 502 NOTOK.
C6_Witness ==
    /\ Done
    /\ HasEnvelope
    /\ data.status = Text("0")
    /\ data.message = Text("NOTOK")
    /\ Reply = ErrorReply(502, "NOTOK")

\* C7: every upstream error is reported with status 502: a rejected envelope,
\* and also a failed outbound call or an unparseable upstream body; none is
\* reported as 500 or any other status.
C7_UpstreamErrorsAre502 ==
    (Done /\ outbound # <<>> /\ Reply.status # 200) => Reply.status = 502

\* C8: every invocation ends with exactly one structured result: the status
\* is 200, 400, 500 or 502, the body is {balanceEther} for 200 and {error}
\* otherwise, and when a step raises an exception the result is 500 with the
\* fixed error "Unexpected server error.", carrying no text of the exception.
\* An invocation under way always has a next step, and takes each step once.
C8_OneStructuredResult ==
    /\ Len(responses) <= 1
    /\ pc = "done" <=> Len(responses) = 1
    /\ pc \notin {"idle", "done"} => ENABLED HandlerStep
    /\ Len(steps) <= Len(HandlerOrder)
    /\ \A i, j \in DOMAIN steps : steps[i] = steps[j] => i = j
    /\ Done => /\ Reply.status \in {200, 400, 500, 502}
               /\ Reply.status = 200 => DOMAIN Reply.body = {"balanceEther"}
               /\ Reply.status # 200 => DOMAIN Reply.body = {"error"}
    /\ thrown # "" => /\ Done
                      /\ Reply = ErrorReply(500, "Unexpected server error.")
    /\ (Done /\ reqBody.json \in {"invalid", "null"}) => thrown # ""
    /\ (Done /\ res.ok /\ data = Undefined) => thrown # ""
    /\ (Done /\ data = Null) => thrown # ""

\* C8 witness: the outbound call failed and the handler answered 500 with the fixed error.
C8_Witness ==
    /\ Done
    /\ thrown = "TypeError: fetch failed"
    /\ Reply = ErrorReply(500, "Unexpected server error.")

\* C9: the steps run in the fixed order parse body, validate address, read
\* credential, call upstream, convert; at most one outbound call is issued per
\* request, never repeated after a failure; a call is issued exactly when the
\* address passed the validator and the credential is present; once a step has
\* produced the final result no later step runs.
C9_StrictSequence ==
    /\ IsPrefix(steps, HandlerOrder)
    /\ Len(outbound) <= 1
    /\ outbound # <<>> => HasValidAddress /\ HasCredential
    /\ Done => (Len(outbound) = 1 <=> HasValidAddress /\ HasCredential)
    /\ Len(responses) >= 1 => pc = "done" /\ ~ENABLED HandlerStep

\* C9 witness: a request has gone through every step, with one outbound call.
C9_Witness ==
    /\ Done
    /\ steps = HandlerOrder
    /\ Len(outbound) = 1
    /\ Reply.status = 200

\* C10: whenever the handler issues the outbound balance query, the address
\* parameter it sends is exactly 0x followed by 40 hexadecimal characters,
\* with no surrounding whitespace, for every address the validator accepts.
C10_SentAddressCanonical ==
    \A i \in DOMAIN outbound : IsCanonicalAddress(outbound[i].address)

=============================================================================
